---- MODULE Spec2Model ----
(***************************************************************************)
(* Model of the Twilio Studio flow tooling in src/tools/twilio/mermaid:    *)
(*   utils.get_first_state            (entry resolver)                     *)
(*   output_states.get_states_by_trigger_type  (reachability extractor)    *)
(*   mermaid.generate_mermaid_graph   (diagram renderer)                   *)
(*   update_doc.update_mermaid_graph  (section updater)                    *)
(* The two recursive walks are modelled as explicit call stacks: a frame   *)
(* is one activation of traverse_state with the position of its for loop.  *)
(***************************************************************************)
EXTENDS Integers, Sequences, FiniteSets, TLC

VARIABLES
    flow_definition,   \* the raw definition: [has_states, states]
    trigger_type,      \* TriggerType.value of the command line's trigger type
    flow_state_file,   \* content of the friendly-name file (a JSON object)
    pc,                \* which function runs / where the program is
    first_state,       \* result of get_first_state (initial_state / first_state)
    all_states,        \* output_states.py: the ordered dict all_states
    friendly_states,   \* mermaid.py: friendly_states
    visited_states,    \* mermaid.py: visited_states
    graph_parts,       \* mermaid.py: graph_parts
    link_index,        \* mermaid.py: link_index[0]
    stack,             \* activations of traverse_state, innermost last
    content,           \* update_doc.py: the text of the file
    new_graph,         \* update_doc.py: the new_graph argument
    file_exists        \* update_doc.py: whether open(filename) succeeds

vars == <<flow_definition, trigger_type, flow_state_file, pc, first_state,
          all_states, friendly_states, visited_states, graph_parts,
          link_index, stack, content, new_graph, file_exists>>

(***************************************************************************)
(* Bounds of the model.                                                    *)
(***************************************************************************)
MaxTrans == 2        \* transitions per state
MaxStates == 2       \* states per definition, entry-resolver inputs
MaxDocLen == 5       \* tokens in the document
MaxGraphLen == 2     \* tokens in new_graph

(***************************************************************************)
(* Python values.                                                          *)
(***************************************************************************)
\* Python's None, kept apart from every string the program handles.
None == "<None>"

\* Variant of Truthy: 'is not None' in place of the truth test.
TruthyNotNone(x) == x # None

\* Truth value of an optional string: None and '' are falsy.
Truthy(x) == x # None /\ x # ""

\* str() as an f-string applies it: None is formatted as 'None'.
Str(x) == IF x = None THEN "None" ELSE x

\* TriggerType(Enum): the external values.
TriggerType == {"incomingMessage", "incomingCall", "incomingRequest", "incomingParent"}

\* dict.keys() of an ordered dict kept as a sequence of [key, value].
Keys(d) == [k \in 1..Len(d) |-> d[k].key]

\* The elements of a sequence.
Range(s) == {s[k] : k \in 1..Len(s)}

\* dict.get(key, default)
DictGet(d, key, default) ==
    IF \E k \in 1..Len(d) : d[k].key = key
    THEN d[CHOOSE k \in 1..Len(d) : d[k].key = key].value
    ELSE default

\* Sequences over S of length at most n.
SeqsUpTo(S, n) == UNION {[1..k -> S] : k \in 0..n}

(***************************************************************************)
(* utils.get_first_state                                                   *)
(***************************************************************************)
\* for state in flow_definition['states']: if state['type'] == 'trigger': break
RECURSIVE FindTriggerState(_, _)
FindTriggerState(states, k) ==
    IF k > Len(states) THEN [transitions |-> <<>>]
    ELSE IF states[k].type = "trigger" THEN states[k]
    ELSE FindTriggerState(states, k + 1)

\* Variant of FindFirstState: the loop does not break, the last match wins.
RECURSIVE FindFirstStateLast(_, _, _)
FindFirstStateLast(transitions, value, k) ==
    IF k > Len(transitions) THEN None
    ELSE LET later == FindFirstStateLast(transitions, value, k + 1)
         IN IF later # None \/ transitions[k].event # value THEN later
            ELSE transitions[k].next

\* for transition in trigger_state.get('transitions', []): if event == value: break
RECURSIVE FindFirstState(_, _, _)
FindFirstState(transitions, value, k) ==
    IF k > Len(transitions) THEN None
    ELSE IF transitions[k].event = value THEN transitions[k].next
    ELSE FindFirstState(transitions, value, k + 1)

GetFirstState(definition, ttype) ==
    FindFirstState(FindTriggerState(definition.states, 1).transitions, ttype, 1)

(***************************************************************************)
(* state_map = {state['name']: state for state in flow_definition['states']}*)
(***************************************************************************)
InStateMap(name) == \E k \in 1..Len(flow_definition.states) :
                        flow_definition.states[k].name = name

\* A later state of the same name overwrites an earlier one.
StateMap(name) ==
    LET states == flow_definition.states
        last == CHOOSE k \in 1..Len(states) :
                   /\ states[k].name = name
                   /\ \A j \in (k + 1)..Len(states) : states[j].name # name
    IN states[last]

\* Variant of SkipState: no test of the states already seen.
SkipStateMissing(state_name, seen) == ~InStateMap(state_name)

\* if state_name in <seen> or state_name not in state_map: return
SkipState(state_name, seen) == state_name \in seen \/ ~InStateMap(state_name)

Frame(state_name) == [state_name |-> state_name, i |-> 1]

Top == stack[Len(stack)]

\* The for loop of the innermost activation moves to its next transition.
Advance == [stack EXCEPT ![Len(stack)].i = Top.i + 1]

(***************************************************************************)
(* output_states.get_states_by_trigger_type                                *)
(***************************************************************************)
\* A call of traverse_state up to its for loop: the dict and the stack after.
ExtractEnter(state_name, states_so_far, frames) ==
    IF SkipState(state_name, Range(Keys(states_so_far)))
    THEN [all_states |-> states_so_far, stack |-> frames]
    ELSE [all_states |-> Append(states_so_far,
                                [key |-> state_name, value |-> state_name]),
          stack |-> Append(frames, Frame(state_name))]

GetStatesByTriggerType ==
    /\ pc = "generate_states_file"
    /\ IF ~flow_definition.has_states
       THEN \* 'states' key not found: print, return {}
            /\ pc' = "update_graph"
            /\ all_states' = <<>>
            /\ UNCHANGED <<first_state, stack>>
       ELSE LET initial_state == GetFirstState(flow_definition, trigger_type)
            IN /\ first_state' = initial_state
               /\ IF ~Truthy(initial_state)
                  THEN \* no states found for the trigger type: return {}
                       /\ pc' = "update_graph"
                       /\ all_states' = <<>>
                       /\ UNCHANGED stack
                  ELSE LET r == ExtractEnter(initial_state, <<>>, <<>>)
                       IN /\ all_states' = r.all_states
                          /\ stack' = r.stack
                          /\ pc' = "extract"
    /\ UNCHANGED <<flow_definition, trigger_type, flow_state_file,
                   friendly_states, visited_states, graph_parts, link_index,
                   content, new_graph, file_exists>>

\* One iteration of 'for transition in state.get('transitions', [])'.
ExtractTransition ==
    /\ pc = "extract"
    /\ stack # <<>>
    /\ Top.i <= Len(StateMap(Top.state_name).transitions)
    /\ LET next_state == StateMap(Top.state_name).transitions[Top.i].next
       IN IF Truthy(next_state)
          THEN LET r == ExtractEnter(next_state, all_states, Advance)
               IN all_states' = r.all_states /\ stack' = r.stack
          ELSE stack' = Advance /\ UNCHANGED all_states
    /\ UNCHANGED <<flow_definition, trigger_type, flow_state_file, pc,
                   first_state, friendly_states, visited_states, graph_parts,
                   link_index, content, new_graph, file_exists>>

\* The for loop is exhausted: traverse_state returns to its caller.
ExtractReturn ==
    /\ pc = "extract"
    /\ stack # <<>>
    /\ Top.i > Len(StateMap(Top.state_name).transitions)
    /\ stack' = SubSeq(stack, 1, Len(stack) - 1)
    /\ UNCHANGED <<flow_definition, trigger_type, flow_state_file, pc,
                   first_state, all_states, friendly_states, visited_states,
                   graph_parts, link_index, content, new_graph, file_exists>>

\* traverse_state(initial_state) has returned: return all_states.
ExtractDone ==
    /\ pc = "extract"
    /\ stack = <<>>
    /\ pc' = "update_graph"
    /\ UNCHANGED <<flow_definition, trigger_type, flow_state_file,
                   first_state, all_states, friendly_states, visited_states,
                   graph_parts, link_index, stack, content, new_graph,
                   file_exists>>

(***************************************************************************)
(* mermaid.generate_mermaid_graph                                          *)
(***************************************************************************)
\* graph_parts starts as the opening fence and the flowchart declaration.
FenceOpen == [kind |-> "fence_open"]
Flowchart == [kind |-> "flowchart_TD"]
FenceClose == [kind |-> "fence_close"]

\* '    {state_name}{{friendly_name}}' or '    {state_name}({friendly_name})'
NodeLine(state_name, state_type, friendly_name) ==
    [kind |-> "node", name |-> state_name,
     shape |-> IF state_type = "split-based-on" THEN "{}" ELSE "()",
     label |-> friendly_name]

\* '    {state_name} --> |{label}| {next_state}'
LabeledEdge(state_name, label, next_state) ==
    [kind |-> "edge", src |-> state_name, labeled |-> TRUE,
     label |-> label, dst |-> next_state]

\* '    {state_name} --> {next_state}'
PlainEdge(state_name, next_state) ==
    [kind |-> "edge", src |-> state_name, labeled |-> FALSE,
     label |-> "", dst |-> next_state]

\* '    linkStyle {link_index[0]} stroke:red'
LinkStyle(index) == [kind |-> "linkStyle", index |-> index, stroke |-> "red"]

\* Variant of NextLinkIndex: the increment is lost.
NextLinkIndexStuck(index) == index

\* link_index[0] += 1
NextLinkIndex(index) == index + 1

\* Variant of EdgeLines: the styling test sits outside the else branch.
EdgeLinesStyleAlways(state_name, transition, index) ==
    LET next_state == transition.next
        conditions == transition.conditions
        event == transition.event
    IN <<IF conditions # <<>>
         THEN LabeledEdge(state_name, Str(conditions[1].friendly_name), next_state)
         ELSE IF event # "next"
              THEN LabeledEdge(state_name, Str(event), next_state)
              ELSE PlainEdge(state_name, next_state)>>
       \o (IF event \in {"failed", "timeout"} THEN <<LinkStyle(index)>> ELSE <<>>)

\* Variant of EdgeLines: a condition labels the edge only when the event is
\* "next".
EdgeLinesEventFirst(state_name, transition, index) ==
    LET next_state == transition.next
        conditions == transition.conditions
        event == transition.event
    IN IF event # "next"
       THEN <<LabeledEdge(state_name, Str(event), next_state)>>
            \o (IF event \in {"failed", "timeout"}
                THEN <<LinkStyle(index)>>
                ELSE <<>>)
       ELSE IF conditions # <<>>
            THEN <<LabeledEdge(state_name, Str(conditions[1].friendly_name), next_state)>>
            ELSE <<PlainEdge(state_name, next_state)>>

\* The lines one transition with a truthy 'next' appends before recursing.
EdgeLines(state_name, transition, index) ==
    LET next_state == transition.next
        conditions == transition.conditions
        event == transition.event
    IN IF conditions # <<>>
       THEN <<LabeledEdge(state_name, Str(conditions[1].friendly_name), next_state)>>
       ELSE <<IF event # "next"
              THEN LabeledEdge(state_name, Str(event), next_state)
              ELSE PlainEdge(state_name, next_state)>>
            \o (IF event \in {"failed", "timeout"}
                THEN <<LinkStyle(index)>>
                ELSE <<>>)

\* Variant of RenderEnter: the node is declared before the test that the state
\* exists.
RenderEnterDeclareFirst(state_name, visited, parts, frames, friendly) ==
    IF state_name \in visited
    THEN [visited_states |-> visited, graph_parts |-> parts, stack |-> frames]
    ELSE IF ~InStateMap(state_name)
    THEN [visited_states |-> visited,
          graph_parts |-> Append(parts,
              NodeLine(state_name, None,
                       DictGet(friendly, state_name, state_name))),
          stack |-> frames]
    ELSE [visited_states |-> visited \cup {state_name},
          graph_parts |-> Append(parts,
              NodeLine(state_name, StateMap(state_name).type,
                       DictGet(friendly, state_name, state_name))),
          stack |-> Append(frames, Frame(state_name))]

\* A call of traverse_state up to its for loop.
RenderEnter(state_name, visited, parts, frames, friendly) ==
    IF SkipState(state_name, visited)
    THEN [visited_states |-> visited, graph_parts |-> parts, stack |-> frames]
    ELSE [visited_states |-> visited \cup {state_name},
          graph_parts |-> Append(parts,
              NodeLine(state_name, StateMap(state_name).type,
                       DictGet(friendly, state_name, state_name))),
          stack |-> Append(frames, Frame(state_name))]

\* main's update_graph: get_first_state, then generate_mermaid_graph up to the
\* first call of traverse_state.  flow_definition['states'] raises KeyError.
GenerateMermaidGraph ==
    /\ pc = "update_graph"
    /\ IF ~flow_definition.has_states
       THEN /\ pc' = "raised"
            /\ UNCHANGED <<first_state, friendly_states, visited_states,
                           graph_parts, link_index, stack>>
       ELSE /\ first_state' = GetFirstState(flow_definition, trigger_type)
            /\ friendly_states' = flow_state_file
            /\ link_index' = -1
            /\ LET r == RenderEnter(first_state', {}, <<FenceOpen, Flowchart>>, <<>>,
                                  flow_state_file)
               IN /\ visited_states' = r.visited_states
                  /\ graph_parts' = r.graph_parts
                  /\ stack' = r.stack
            /\ pc' = "render"
    /\ UNCHANGED <<flow_definition, trigger_type, flow_state_file, all_states,
                   content, new_graph, file_exists>>

\* One iteration of 'for transition in state.get('transitions', [])'.
RenderTransition ==
    /\ pc = "render"
    /\ stack # <<>>
    /\ Top.i <= Len(StateMap(Top.state_name).transitions)
    /\ LET transition == StateMap(Top.state_name).transitions[Top.i]
           next_state == transition.next
       IN IF Truthy(next_state)
          THEN LET index == NextLinkIndex(link_index)
                   r == RenderEnter(next_state, visited_states,
                            graph_parts \o EdgeLines(Top.state_name, transition, index),
                            Advance, friendly_states)
               IN /\ link_index' = index
                  /\ visited_states' = r.visited_states
                  /\ graph_parts' = r.graph_parts
                  /\ stack' = r.stack
          ELSE /\ stack' = Advance
               /\ UNCHANGED <<link_index, visited_states, graph_parts>>
    /\ UNCHANGED <<flow_definition, trigger_type, flow_state_file, pc,
                   first_state, all_states, friendly_states, content,
                   new_graph, file_exists>>

\* The for loop is exhausted: traverse_state returns to its caller.
RenderReturn ==
    /\ pc = "render"
    /\ stack # <<>>
    /\ Top.i > Len(StateMap(Top.state_name).transitions)
    /\ stack' = SubSeq(stack, 1, Len(stack) - 1)
    /\ UNCHANGED <<flow_definition, trigger_type, flow_state_file, pc,
                   first_state, all_states, friendly_states, visited_states,
                   graph_parts, link_index, content, new_graph, file_exists>>

\* traverse_state(initial_state) has returned: close the fence, return.
RenderDone ==
    /\ pc = "render"
    /\ stack = <<>>
    /\ graph_parts' = Append(graph_parts, FenceClose)
    /\ pc' = "done"
    /\ UNCHANGED <<flow_definition, trigger_type, flow_state_file,
                   first_state, all_states, friendly_states, visited_states,
                   link_index, stack, content, new_graph, file_exists>>

(***************************************************************************)
(* Flow definitions the walks are run on.                                  *)
(***************************************************************************)
Transition(event, conditions, next) ==
    [event |-> event, conditions |-> conditions, next |-> next]

State(name, type, transitions) ==
    [name |-> name, type |-> type, transitions |-> transitions]

\* The trigger widget, whose incomingCall transition leads to 'entry'.
TriggerWidget(entry) ==
    State("Trigger", "trigger",
          <<Transition("incomingMessage", <<>>, None),
            Transition("incomingCall", <<>>, entry)>>)

Definition(states) == [has_states |-> TRUE, states |-> states]

\* Graph shapes: self-loops, cycles, diamonds through the trigger, dangling
\* targets; every transition is a plain 'next'.
ShapeTransitions == {Transition("next", <<>>, t) : t \in {"A", "B", "Trigger", "Z"}}

ShapeDefinition(ta, tb) ==
    Definition(<<TriggerWidget("A"), State("A", "send-message", ta),
                 State("B", "split-based-on", tb)>>)

\* Entries: none, empty, dangling, existing; with and without a state whose
\* name is the empty string.
EntryDefinition(e, extra) ==
    Definition(<<TriggerWidget(e),
                 State("A", "send-message", <<Transition("next", <<>>, "B")>>),
                 State("B", "split-based-on", <<Transition("next", <<>>, "")>>)>>
               \o extra)

EmptyNameState == State("", "send-message", <<Transition("next", <<>>, "A")>>)

\* Labels: every combination of event, conditions and target on one state.
LabelTransitions ==
    {Transition(e, c, t) :
        e \in {"next", "failed", "timeout", "noMatch", None},
        c \in {<<>>, <<[friendly_name |-> "Yes"], [friendly_name |-> "No"]>>},
        t \in {"B", None}}

LabelDefinition(ta) ==
    Definition(<<TriggerWidget("A"), State("A", "split-based-on", ta),
                 State("B", "send-message", <<>>)>>)

\* A raw definition without the 'states' key.
NoStates == [has_states |-> FALSE, states |-> <<>>]

Init ==
    /\ \/ \E ta, tb \in SeqsUpTo(ShapeTransitions, MaxTrans) :
             flow_definition = ShapeDefinition(ta, tb)
       \/ \E e \in {None, "", "A", "Z"}, extra \in {<<>>, <<EmptyNameState>>} :
             flow_definition = EntryDefinition(e, extra)
       \/ \E ta \in SeqsUpTo(LabelTransitions, MaxTrans) :
             flow_definition = LabelDefinition(ta)
       \/ flow_definition = NoStates
    /\ trigger_type = "incomingCall"
    /\ flow_state_file = <<[key |-> "A", value |-> "Alpha"]>>
    /\ pc = "generate_states_file"
    /\ first_state = None
    /\ all_states = <<>>
    /\ friendly_states = <<>>
    /\ visited_states = {}
    /\ graph_parts = <<>>
    /\ link_index = -1
    /\ stack = <<>>
    /\ content = <<>>
    /\ new_graph = <<>>
    /\ file_exists = TRUE

Next ==
    \/ GetStatesByTriggerType
    \/ ExtractTransition
    \/ ExtractReturn
    \/ ExtractDone
    \/ GenerateMermaidGraph
    \/ RenderTransition
    \/ RenderReturn
    \/ RenderDone

Spec == Init /\ [][Next]_vars

(***************************************************************************)
(* The entry resolver on its own: definitions with several trigger states, *)
(* states in any order, and trigger transitions that match or do not.      *)
(***************************************************************************)
\* get_first_state(flow_definition, trigger_type); flow_definition['states']
\* raises KeyError when the key is missing.
ResolveEntry ==
    /\ pc = "resolve_entry"
    /\ IF ~flow_definition.has_states
       THEN pc' = "raised" /\ UNCHANGED first_state
       ELSE /\ first_state' = GetFirstState(flow_definition, trigger_type)
            /\ pc' = "resolved"
    /\ UNCHANGED <<flow_definition, trigger_type, flow_state_file, all_states,
                   friendly_states, visited_states, graph_parts, link_index,
                   stack, content, new_graph, file_exists>>

EntryTransitionLists ==
    {<<>>,
     <<Transition("incomingMessage", <<>>, "A")>>,
     <<Transition("incomingCall", <<>>, "A")>>,
     <<Transition("incomingMessage", <<>>, "A"), Transition("incomingCall", <<>>, "B")>>,
     <<Transition("incomingCall", <<>>, "B"), Transition("incomingCall", <<>>, "A")>>,
     <<Transition("incomingCall", <<>>, None), Transition("incomingCall", <<>>, "A")>>}

EntryStates ==
    {State("Trigger", "trigger", t) : t \in EntryTransitionLists}
    \cup {State("A", "send-message", t) : t \in EntryTransitionLists}

InitEntry ==
    /\ \/ \E s \in SeqsUpTo(EntryStates, MaxStates) : flow_definition = Definition(s)
       \/ flow_definition = NoStates
    /\ trigger_type \in {"incomingCall", "incomingRequest"}
    /\ flow_state_file = <<>>
    /\ pc = "resolve_entry"
    /\ first_state = None
    /\ all_states = <<>>
    /\ friendly_states = <<>>
    /\ visited_states = {}
    /\ graph_parts = <<>>
    /\ link_index = -1
    /\ stack = <<>>
    /\ content = <<>>
    /\ new_graph = <<>>
    /\ file_exists = TRUE

NextEntry == ResolveEntry

SpecEntry == InitEntry /\ [][NextEntry]_vars

(***************************************************************************)
(* update_doc.update_mermaid_graph.  Text is a sequence of tokens: the two *)
(* tags (which cannot overlap each other), a newline, a backslash and the  *)
(* letter x.                                                               *)
(***************************************************************************)
\* f"<!-- {section_identifier}-start -->" and f"<!-- {section_identifier}-end -->"
StartTag == "<!-- diagram-start -->"
EndTag == "<!-- diagram-end -->"
Newline == "\n"
Backslash == "\\"
Letter == "x"

\* The replacement template f"{mermaid_start_tag}\n{new_graph}\n{mermaid_end_tag}"
Template(graph) == <<StartTag, Newline>> \o graph \o <<Newline, EndTag>>

\* re.sub parses the template before it searches: a doubled backslash stands
\* for one, a backslash before an ASCII letter that is no escape is
\* re.error('bad escape'), a backslash before anything else is kept.
RECURSIVE ParseTemplate(_, _)
ParseTemplate(template, k) ==
    IF k > Len(template) THEN [error |-> FALSE, text |-> <<>>]
    ELSE IF template[k] = Backslash /\ k < Len(template)
    THEN IF template[k + 1] = Letter
         THEN [error |-> TRUE, text |-> <<>>]
         ELSE LET rest == ParseTemplate(template, k + 2)
              IN [error |-> rest.error,
                  text |-> IF template[k + 1] = Backslash
                           THEN <<Backslash>> \o rest.text
                           ELSE <<Backslash, template[k + 1]>> \o rest.text]
    ELSE LET rest == ParseTemplate(template, k + 1)
         IN [error |-> rest.error, text |-> <<template[k]>> \o rest.text]

\* Position of the first end tag after position k, 0 if there is none.
FirstEndAfter(text, k) ==
    IF \E j \in (k + 1)..Len(text) : text[j] = EndTag
    THEN CHOOSE j \in (k + 1)..Len(text) :
            text[j] = EndTag /\ \A m \in (k + 1)..(j - 1) : text[m] # EndTag
    ELSE 0

\* re.sub(start \s*(.*?)\s* end, replacement, content, flags=re.DOTALL): every
\* non-overlapping match, leftmost first, each from a start tag to the first
\* end tag after it.
RECURSIVE ReSub(_, _, _)
ReSub(text, replacement, k) ==
    IF k > Len(text) THEN <<>>
    ELSE IF text[k] = StartTag /\ FirstEndAfter(text, k) # 0
    THEN replacement \o ReSub(text, replacement, FirstEndAfter(text, k) + 1)
    ELSE <<text[k]>> \o ReSub(text, replacement, k + 1)

UpdateMermaidGraph ==
    /\ pc = "update_doc"
    /\ IF ~file_exists
       THEN \* except FileNotFoundError: print
            pc' = "file_not_found" /\ UNCHANGED content
       ELSE LET parsed == ParseTemplate(Template(new_graph), 1)
            IN IF parsed.error
               THEN \* re.error is not caught; the file is not written
                    pc' = "raised" /\ UNCHANGED content
               ELSE /\ content' = ReSub(content, parsed.text, 1)
                    /\ pc' = "written"
    /\ UNCHANGED <<flow_definition, trigger_type, flow_state_file, first_state,
                   all_states, friendly_states, visited_states, graph_parts,
                   link_index, stack, new_graph, file_exists>>

InitDoc ==
    /\ content \in SeqsUpTo({StartTag, EndTag, Newline, Letter}, MaxDocLen)
    /\ new_graph \in SeqsUpTo({Letter, Backslash}, MaxGraphLen)
    /\ file_exists \in {TRUE, content # <<>>}
    /\ pc = "update_doc"
    /\ flow_definition = NoStates
    /\ trigger_type = "incomingCall"
    /\ flow_state_file = <<>>
    /\ first_state = None
    /\ all_states = <<>>
    /\ friendly_states = <<>>
    /\ visited_states = {}
    /\ graph_parts = <<>>
    /\ link_index = -1
    /\ stack = <<>>

NextDoc == UpdateMermaidGraph

SpecDoc == InitDoc /\ [][NextDoc]_vars

(***************************************************************************)
(* Definitions the properties are stated with.                             *)
(***************************************************************************)
\* The walks under the scheduling of a running program: a step that can be
\* taken is taken.
FairSpec == Spec /\ WF_vars(Next)

\* An identifier that names something: neither None nor the empty string.
NonEmpty(x) == x \notin {None, ""}

StateNames == {flow_definition.states[k].name : k \in 1..Len(flow_definition.states)}

\* The existing states one transition away from state s.
Targets(s) ==
    {StateMap(s).transitions[k].next : k \in 1..Len(StateMap(s).transitions)}
        \cap (StateNames \ {""})

RECURSIVE Closure(_)
Closure(S) ==
    LET more == S \cup UNION {Targets(s) : s \in S}
    IN IF more = S THEN S ELSE Closure(more)

\* The existing states reachable from entry, entry included.
ReachableFrom(entry) == IF entry \in StateNames THEN Closure({entry}) ELSE {}

\* No state of the graph leads back to itself.
Acyclic == \A s \in StateNames : s \notin Closure(Targets(s))

\* Depth-first first-visit order from a state, transitions in their order.
RECURSIVE FirstVisit(_, _)
RECURSIVE FirstVisitChildren(_, _, _)
FirstVisit(name, seen) ==
    IF name \in Range(seen) \/ name \notin StateNames THEN seen
    ELSE FirstVisitChildren(name, 1, Append(seen, name))
FirstVisitChildren(name, k, seen) ==
    IF k > Len(StateMap(name).transitions) THEN seen
    ELSE FirstVisitChildren(name, k + 1,
            IF NonEmpty(StateMap(name).transitions[k].next)
            THEN FirstVisit(StateMap(name).transitions[k].next, seen)
            ELSE seen)

IsNode(line) == line.kind = "node"
IsEdge(line) == line.kind = "edge"

\* The state identifiers with a node-declaration line, in output order.
NodeNames(parts) ==
    LET nodes == SelectSeq(parts, IsNode)
    IN [k \in 1..Len(nodes) |-> nodes[k].name]

\* The edge lines, in output order.
EdgeLinesOf(parts) == SelectSeq(parts, IsEdge)

NoDuplicates(s) == \A j, k \in 1..Len(s) : s[j] = s[k] => j = k

\* get_states_by_trigger_type has returned.
Extracted == pc \in {"update_graph", "render", "done", "raised"}

\* generate_mermaid_graph runs or has returned.
Rendering == pc \in {"render", "done"}

ExpandedOnce ==
    /\ NoDuplicates(Keys(all_states))
    /\ NoDuplicates(NodeNames(graph_parts))
    /\ NoDuplicates([k \in 1..Len(stack) |-> stack[k].state_name])
    /\ pc = "extract" =>
          \A k \in 1..Len(stack) : stack[k].state_name \in Range(Keys(all_states))
    /\ pc = "render" =>
          /\ \A k \in 1..Len(stack) : stack[k].state_name \in visited_states
          /\ Range(NodeNames(graph_parts)) = visited_states
    /\ (Extracted /\ NonEmpty(first_state)) =>
          Range(Keys(all_states)) = ReachableFrom(first_state)
    /\ pc = "done" => Range(NodeNames(graph_parts)) = ReachableFrom(first_state)

\* C2: both walks terminate on every graph, cyclic ones included, and each
\* state is marked before it is expanded and expanded once.
C2_TerminatesExpandingOnce ==
    /\ []ExpandedOnce
    /\ <>(pc \in {"done", "raised"})

\* Both walks have finished on a graph with a self-loop (B to B), a cycle
\* (A to B to Trigger to A) and a diamond (Trigger is a target of both A and
\* B), all reachable from the entry A.
C2_Witness ==
    /\ pc = "done"
    /\ first_state = "A"
    /\ Len(StateMap("A").transitions) = 2
    /\ StateMap("A").transitions[1].next = "B"
    /\ StateMap("A").transitions[2].next = "Trigger"
    /\ Len(StateMap("B").transitions) = 2
    /\ StateMap("B").transitions[1].next = "B"
    /\ StateMap("B").transitions[2].next = "Trigger"
    /\ Keys(all_states) = <<"A", "B", "Trigger">>
    /\ NodeNames(graph_parts) = <<"A", "B", "Trigger">>

(***************************************************************************)
(* The renderer's step on one transition, as the properties see it.        *)
(***************************************************************************)
\* The renderer is about to run one iteration of its for loop.
AtTransition ==
    /\ pc = "render"
    /\ stack # <<>>
    /\ Top.i <= Len(StateMap(Top.state_name).transitions)

Current == StateMap(Top.state_name).transitions[Top.i]

\* The lines the step appends to graph_parts.
Appended == SubSeq(graph_parts', Len(graph_parts) + 1, Len(graph_parts'))

NumEdges(parts) == Len(EdgeLinesOf(parts))

\* The styling line of the edge emitted by this step, were there one.
StyleOfThisEdge ==
    [kind |-> "linkStyle", index |-> NumEdges(graph_parts), stroke |-> "red"]

\* The step's edge line is followed at once by its styling line.
Styled == Len(Appended) >= 2 /\ Appended[2] = StyleOfThisEdge

\* The step appends one edge line first, and a styling line, if any, second.
EdgeThenStyle ==
    /\ Len(Appended) >= 1
    /\ IsEdge(Appended[1])
    /\ \A k \in 1..Len(Appended) :
          /\ IsEdge(Appended[k]) => k = 1
          /\ Appended[k].kind = "linkStyle" => k = 2 /\ Styled

(***************************************************************************)
(* C3                                                                      *)
(***************************************************************************)
\* C3 as stated: an edge is followed by its red styling line exactly when the
\* transition's event is "failed" or "timeout", condition label or not.
C3_FailureStyledAsStated ==
    [][(AtTransition /\ NonEmpty(Current.next)) =>
          /\ EdgeThenStyle
          /\ Styled <=> Current.event \in {"failed", "timeout"}]_vars

\* C3 amended: an edge is followed by its red styling line exactly when the
\* transition has no condition and its event is "failed" or "timeout"; an
\* edge labeled from a condition is never styled.
C3_FailureStyled ==
    [][(AtTransition /\ NonEmpty(Current.next)) =>
          /\ EdgeThenStyle
          /\ Styled <=> /\ Current.conditions = <<>>
                        /\ Current.event \in {"failed", "timeout"}]_vars

\* A finished diagram of a state with a condition-labeled "failed" transition
\* followed by a plain "timeout" transition: only the second edge is styled.
C3_Witness ==
    /\ pc = "done"
    /\ flow_definition.has_states
    /\ InStateMap("A")
    /\ Len(StateMap("A").transitions) = 2
    /\ StateMap("A").transitions[1].event = "failed"
    /\ StateMap("A").transitions[1].conditions # <<>>
    /\ StateMap("A").transitions[1].next = "B"
    /\ StateMap("A").transitions[2].event = "timeout"
    /\ StateMap("A").transitions[2].conditions = <<>>
    /\ StateMap("A").transitions[2].next = "B"
    /\ {k \in 1..Len(graph_parts) : graph_parts[k].kind = "linkStyle"} = {7}
    /\ graph_parts[7].index = 1

(***************************************************************************)
(* C5                                                                      *)
(***************************************************************************)
\* C5: a definition without a 'states' collection never makes an operation
\* raise; each returns an empty result.
C5_InvalidDefinitionHandled ==
    ~flow_definition.has_states =>
        /\ pc # "raised"
        /\ all_states = <<>>
        /\ pc = "done" => graph_parts = <<FenceOpen, Flowchart, FenceClose>>

(***************************************************************************)
(* C6                                                                      *)
(***************************************************************************)
\* C6: the edge's label is the first condition's friendly name if there is a
\* condition, else nothing if the event is exactly "next", else the event.
C6_LabelPrecedence ==
    [][(AtTransition /\ NonEmpty(Current.next)) =>
          /\ Len(Appended) >= 1
          /\ IsEdge(Appended[1])
          /\ Appended[1].src = Top.state_name
          /\ Appended[1].dst = Current.next
          /\ Current.conditions # <<>> =>
                /\ Appended[1].labeled
                /\ Appended[1].label = Current.conditions[1].friendly_name
          /\ (Current.conditions = <<>> /\ Current.event = "next") =>
                ~Appended[1].labeled
          /\ (Current.conditions = <<>> /\ Current.event # "next") =>
                /\ Appended[1].labeled
                /\ Appended[1].label =
                      (IF Current.event = None THEN "None" ELSE Current.event)]_vars

\* A finished diagram of a state whose first transition has conditions and
\* the event "noMatch" and whose second is an unconditional "timeout": the
\* first edge carries the condition's label, the second the event.
C6_Witness ==
    /\ pc = "done"
    /\ flow_definition.has_states
    /\ InStateMap("A")
    /\ Len(StateMap("A").transitions) = 2
    /\ StateMap("A").transitions[1].event = "noMatch"
    /\ StateMap("A").transitions[1].conditions # <<>>
    /\ StateMap("A").transitions[1].next = "B"
    /\ StateMap("A").transitions[2].event = "timeout"
    /\ StateMap("A").transitions[2].conditions = <<>>
    /\ StateMap("A").transitions[2].next = "B"
    /\ EdgeLinesOf(graph_parts)[1].label = "Yes"
    /\ EdgeLinesOf(graph_parts)[2].label = "timeout"

(***************************************************************************)
(* C8                                                                      *)
(***************************************************************************)
\* C8: the link index is the number of edge lines emitted so far minus one,
\* and every styling line names the edge line right before it.
C8_LinkIndexCountsEdges ==
    Rendering =>
        /\ link_index = NumEdges(graph_parts) - 1
        /\ \A k \in 1..Len(graph_parts) :
              graph_parts[k].kind = "linkStyle" =>
                  /\ k > 1
                  /\ IsEdge(graph_parts[k - 1])
                  /\ graph_parts[k].index = NumEdges(SubSeq(graph_parts, 1, k - 1)) - 1

\* A styling line for the second edge, after an edge that has none.
C8_Witness ==
    /\ pc = "done"
    /\ link_index = 1
    /\ \E k \in 1..Len(graph_parts) :
          graph_parts[k].kind = "linkStyle" /\ graph_parts[k].index = 1
    /\ \A k \in 1..Len(graph_parts) :
          graph_parts[k].kind = "linkStyle" => graph_parts[k].index # 0

(***************************************************************************)
(* C9                                                                      *)
(***************************************************************************)
\* The transitions of s the renderer has been through.
Processed(s) ==
    IF \E k \in 1..Len(stack) : stack[k].state_name = s
    THEN SubSeq(StateMap(s).transitions, 1,
                stack[CHOOSE k \in 1..Len(stack) : stack[k].state_name = s].i - 1)
    ELSE StateMap(s).transitions

HasTarget(transition) == NonEmpty(transition.next)

\* The targets of the edge lines drawn from s, in output order.
EdgeTargets(s) ==
    LET from == SelectSeq(EdgeLinesOf(graph_parts), LAMBDA e : e.src = s)
    IN [k \in 1..Len(from) |-> from[k].dst]

\* C9: each transition with a non-empty 'next' of a visited state gets one
\* edge line, in order, whether its target exists, is new or was visited;
\* only existing states get a node line, each one only, and nothing raises.
C9_EdgesToEveryTarget ==
    /\ flow_definition.has_states => pc # "raised"
    /\ Rendering =>
          /\ Range(NodeNames(graph_parts)) \subseteq StateNames
          /\ NoDuplicates(NodeNames(graph_parts))
          /\ \A k \in 1..NumEdges(graph_parts) :
                EdgeLinesOf(graph_parts)[k].src \in visited_states
          /\ \A s \in visited_states :
                EdgeTargets(s) =
                    LET done == SelectSeq(Processed(s), HasTarget)
                    IN [k \in 1..Len(done) |-> done[k].next]

\* A finished diagram with an edge to a state absent from the graph and an
\* edge back to a state that was already visited.
C9_Witness ==
    /\ pc = "done"
    /\ \E k \in 1..NumEdges(graph_parts) :
          /\ EdgeLinesOf(graph_parts)[k].dst = "Z"
          /\ "Z" \notin StateNames
    /\ \E k \in 1..NumEdges(graph_parts) :
          /\ EdgeLinesOf(graph_parts)[k].src = "B"
          /\ EdgeLinesOf(graph_parts)[k].dst = "A"
    /\ NodeNames(graph_parts) = <<"A", "B">>

(***************************************************************************)
(* C10                                                                     *)
(***************************************************************************)
\* C10: the states with a node line, in output order, are the keys the
\* extractor returned, for every graph and entry.
C10_SameWalk ==
    pc = "done" => NodeNames(graph_parts) = Keys(all_states)

(***************************************************************************)
(* C4                                                                      *)
(***************************************************************************)
\* Position of the first start tag that has an end tag after it, 0 if none.
FirstSection(text) ==
    IF \E k \in 1..Len(text) : text[k] = StartTag /\ FirstEndAfter(text, k) # 0
    THEN CHOOSE k \in 1..Len(text) :
            /\ text[k] = StartTag
            /\ \A j \in 1..(k - 1) : text[j] # StartTag
    ELSE 0

\* The document with only its first tagged section rewritten.
FirstSectionReplaced(text, graph) ==
    IF FirstSection(text) = 0 THEN text
    ELSE SubSeq(text, 1, FirstSection(text) - 1)
         \o <<StartTag, Newline>> \o graph \o <<Newline, EndTag>>
         \o SubSeq(text, FirstEndAfter(text, FirstSection(text)) + 1, Len(text))

\* C4: the update rewrites the first tagged section to start tag, newline,
\* new_graph, newline, end tag, and leaves every other character, later
\* sections included, as it was; without a section the text is unchanged.
C4_OnlyFirstSectionRewritten ==
    [][(pc = "update_doc" /\ file_exists) =>
          /\ pc' = "written"
          /\ content' = FirstSectionReplaced(content, new_graph)]_vars

(***************************************************************************)
(* C7                                                                      *)
(***************************************************************************)
Least(S) == CHOOSE k \in S : \A j \in S : k <= j

\* C7: the entry is the target of the first transition, among those of the
\* first trigger state, whose event is the trigger type's value; none if that
\* state has no such transition or there is no trigger state.
C7_FirstMatchOfFirstTrigger ==
    pc = "resolved" =>
        LET states == flow_definition.states
            triggers == {k \in 1..Len(states) : states[k].type = "trigger"}
        IN IF triggers = {} THEN first_state = None
           ELSE LET transitions == states[Least(triggers)].transitions
                    matching == {k \in 1..Len(transitions) :
                                    transitions[k].event = trigger_type}
                IN IF matching = {} THEN first_state = None
                   ELSE first_state = transitions[Least(matching)].next

\* The first trigger state has no transition for the trigger type, a later
\* trigger state has one: the entry is none.
C7_Witness ==
    /\ pc = "resolved"
    /\ first_state = None
    /\ Len(flow_definition.states) = 2
    /\ \A k \in 1..2 : flow_definition.states[k].type = "trigger"
    /\ \A k \in 1..Len(flow_definition.states[1].transitions) :
          flow_definition.states[1].transitions[k].event # trigger_type
    /\ flow_definition.states[1].transitions # <<>>
    /\ \E k \in 1..Len(flow_definition.states[2].transitions) :
          /\ flow_definition.states[2].transitions[k].event = trigger_type
          /\ flow_definition.states[2].transitions[k].next = "B"

====
